---- MODULE Spec2Model ----
(***************************************************************************)
(* Model of the Bitcoin trading bot: the rule evaluation of                *)
(* BinanceTrader.run_strategy, the risk gate RiskManager, the order path   *)
(* BinanceTrader.execute_trade, the outer loop of main() and the trade     *)
(* journal TradeLogger.  Every accepted order is counted by RiskManager and *)
(* written to trades.csv in the same step.                                 *)
(*                                                                         *)
(* Floats are scaled to integers.  A float is modelled as a sequence of    *)
(* length at most one: <<>> is NaN and <<v>> is the number v, so that NaN  *)
(* is a value of its own and every comparison with it is false, as in      *)
(* IEEE-754 / numpy.                                                       *)
(***************************************************************************)
EXTENDS Integers, Sequences, FiniteSets, TLC

VARIABLES
    pc,              \* position of the single control flow
    today,           \* datetime.now().date(), in days since the start
    trades_today,    \* RiskManager.trades_today
    last_trade_date, \* RiskManager.last_trade_date: <<>> is None, <<d>> a date
    retry_count,     \* main(): retry_count
    df,              \* run_strategy: what the rules read from the fetched frame
    side,            \* execute_trade: side
    strategy,        \* execute_trade: strategy
    caller,          \* which rule of run_strategy called execute_trade
    trace,           \* what the current cycle did so far, in order
    tt_entry,        \* history: trades_today when execute_trade was entered
    calls_today,     \* history: can_trade() calls made on the calendar day `today`
    recorded,        \* history: update_trade_count() calls since the last daily reset
    consec_fail,     \* history: consecutive cycles that raised inside run_strategy
    interrupted,     \* history: the operator interrupted the bot
    resets_today,    \* history: daily resets made on the calendar day `today`
    orders_today,    \* history: orders accepted on the calendar day `today`
    log_file,        \* TradeLogger: the rows of trades.csv (the header is row 1)
    written,         \* history: the trade_data dicts handed to log_trade
    history,         \* the last result of get_trade_history
    jnow,            \* datetime.now() as seen by TradeLogger on its own, in days
    snapshot         \* history: the rows of the frame the first cycle fetched

loopVars == <<pc, today, trades_today, last_trade_date, retry_count, df, side,
              strategy, caller, trace, tt_entry, calls_today, recorded,
              consec_fail, interrupted, resets_today, orders_today>>
journalVars == <<log_file, written, history, jnow>>
evalVars == <<snapshot>>
vars == <<pc, today, trades_today, last_trade_date, retry_count, df, side,
          strategy, caller, trace, tt_entry, calls_today, recorded,
          consec_fail, interrupted, resets_today, orders_today,
          log_file, written, history, jnow, snapshot>>

-----------------------------------------------------------------------------
(* Bounds of the model and constants of the program.                       *)

MaxTrades == 1      \* MAX_TRADES_PER_DAY (a positive integer; 5 by default)
MaxRetries == 2     \* MAX_RETRIES (3 by default)
MaxDay == 1         \* calendar days that pass during a run, after day 0
MaxOrders == 2      \* orders accepted, and rows written to trades.csv, during a run
MaxRows == 2        \* trade records written to a journal
MaxNow == 2         \* days that pass while the journal is used

AdxThreshold == 25  \* ADX_THRESHOLD
RsiOversold == 30
RsiOverbought == 70

-----------------------------------------------------------------------------
(* Floats with NaN.                                                        *)

NaN == <<>>
Num(v) == <<v>>
IsNaN(a) == a = NaN
Lt(a, b) == ~IsNaN(a) /\ ~IsNaN(b) /\ a[1] < b[1]
Gt(a, b) == ~IsNaN(a) /\ ~IsNaN(b) /\ a[1] > b[1]

-----------------------------------------------------------------------------
(* The indicator rows run_strategy reads: df.iloc[-1], df.iloc[-2] and     *)
(* df['volatility'].mean().                                                *)

\* df['squeeze'] of one row: Bollinger Bands inside the Keltner Channels.
Squeeze(row) ==
    Lt(row.upper_bb, row.upper_kc) /\ Gt(row.lower_bb, row.lower_kc)

\* Band values of one row: in a squeeze, out of it, and not yet computable.
BandCases ==
    { [upper_bb |-> Num(104), lower_bb |-> Num(96),
       upper_kc |-> Num(105), lower_kc |-> Num(95)],
      [upper_bb |-> Num(104), lower_bb |-> Num(96),
       upper_kc |-> Num(103), lower_kc |-> Num(97)],
      [upper_bb |-> NaN, lower_bb |-> NaN, upper_kc |-> NaN, lower_kc |-> NaN] }
CloseCases == {95, 96, 104, 105}
AdxCases == {NaN, Num(25), Num(30)}
RsiCases == {NaN, Num(25), Num(30), Num(70), Num(75)}
\* <<macd, signal>>
MacdCases == {<<NaN, NaN>>, <<Num(2), Num(1)>>, <<Num(1), Num(1)>>, <<Num(0), Num(1)>>}
\* <<volatility of the last row, mean of the column>>: the mean skips NaN
\* and is NaN only when the whole column is.
VolCases == {<<NaN, NaN>>, <<NaN, Num(2)>>, <<Num(1), Num(2)>>, <<Num(2), Num(2)>>}

Frames ==
    { [previous |-> pb,
       current |-> [close |-> Num(c), upper_bb |-> cb.upper_bb,
                    lower_bb |-> cb.lower_bb, upper_kc |-> cb.upper_kc,
                    lower_kc |-> cb.lower_kc, adx |-> a, rsi |-> r,
                    macd |-> m[1], signal |-> m[2], volatility |-> v[1]],
       mean_volatility |-> v[2]] :
      pb \in BandCases, cb \in BandCases, c \in CloseCases, a \in AdxCases,
      r \in RsiCases, m \in MacdCases, v \in VolCases }

\* Lines 230-236: the squeeze breakout.  "NONE" when neither branch is taken.
Rule1(f) ==
    IF Squeeze(f.previous) /\ ~Squeeze(f.current)
       /\ Gt(f.current.adx, Num(AdxThreshold))
    THEN IF Gt(f.current.close, f.current.upper_bb) THEN "BUY"
         ELSE IF Lt(f.current.close, f.current.lower_bb) THEN "SELL"
         ELSE "NONE"
    ELSE "NONE"

\* Faulty variant of Rule2: the RSI bounds are inclusive.
Rule2Inclusive(f) ==
    IF ~Gt(f.current.rsi, Num(RsiOversold)) /\ ~IsNaN(f.current.rsi)
       /\ Gt(f.current.macd, f.current.signal)
       /\ Lt(f.current.volatility, f.mean_volatility)
    THEN "BUY"
    ELSE IF ~Lt(f.current.rsi, Num(RsiOverbought)) /\ ~IsNaN(f.current.rsi)
            /\ Lt(f.current.macd, f.current.signal)
            /\ Lt(f.current.volatility, f.mean_volatility)
    THEN "SELL"
    ELSE "HOLD"
\* Lines 239-248: RSI with MACD confirmation.
Rule2(f) ==
    IF Lt(f.current.rsi, Num(RsiOversold))
       /\ Gt(f.current.macd, f.current.signal)
       /\ Lt(f.current.volatility, f.mean_volatility)
    THEN "BUY"
    ELSE IF Gt(f.current.rsi, Num(RsiOverbought))
            /\ Lt(f.current.macd, f.current.signal)
            /\ Lt(f.current.volatility, f.mean_volatility)
    THEN "SELL"
    ELSE "HOLD"

\* Some field the rules read has no value in the previous or the current row.
AnyUndefined(f) ==
    \/ \E k \in {"upper_bb", "lower_bb", "upper_kc", "lower_kc"} :
          IsNaN(f.previous[k]) \/ IsNaN(f.current[k])
    \/ \E k \in {"adx", "rsi", "macd", "signal", "volatility"} :
          IsNaN(f.current[k])

\* What a cycle keeps of the frame: the outcome of each rule on it.
View(f) == [sig1 |-> Rule1(f), sig2 |-> Rule2(f)]
NoDf == [sig1 |-> "NONE", sig2 |-> "HOLD"]
\* The views of all the frames a fetch can deliver.
FrameViews == {View(f) : f \in Frames}

\* No rows kept: no field has a value, not even close.
NoSnapshot ==
    [previous |-> [upper_bb |-> NaN, lower_bb |-> NaN, upper_kc |-> NaN, lower_kc |-> NaN],
     current |-> [close |-> NaN, upper_bb |-> NaN, lower_bb |-> NaN, upper_kc |-> NaN,
                  lower_kc |-> NaN, adx |-> NaN, rsi |-> NaN, macd |-> NaN,
                  signal |-> NaN, volatility |-> NaN],
     mean_volatility |-> NaN]

-----------------------------------------------------------------------------
(* RiskManager (utils.py).                                                 *)

Date(d) == <<d>>
NoDate == <<>>

\* can_trade, line 35: the stored date is not today's.
ResetDue(ltd, day) == ltd # Date(day)

\* Faulty variant of AfterReset: the counter is cleared, the date is not
\* stored.
AfterResetForgetsDate(tt, ltd, day) ==
    IF ResetDue(ltd, day) THEN [trades_today |-> 0, last_trade_date |-> ltd]
    ELSE [trades_today |-> tt, last_trade_date |-> ltd]
\* Faulty variant of AfterReset: the date is stored, the counter is kept.
AfterResetKeepsCount(tt, ltd, day) ==
    IF ResetDue(ltd, day) THEN [trades_today |-> tt, last_trade_date |-> Date(day)]
    ELSE [trades_today |-> tt, last_trade_date |-> ltd]
\* can_trade, lines 35-37: the lazy daily reset.
AfterReset(tt, ltd, day) ==
    IF ResetDue(ltd, day) THEN [trades_today |-> 0, last_trade_date |-> Date(day)]
    ELSE [trades_today |-> tt, last_trade_date |-> ltd]

\* Faulty variant of LimitReached: > for >=.
LimitReachedOffByOne(tt) == tt > MaxTrades
\* can_trade, line 39.
LimitReached(tt) == tt >= MaxTrades

\* can_trade's result on the state it is called in.
can_trade(tt, ltd, day) == ~LimitReached(AfterReset(tt, ltd, day).trades_today)

\* update_trade_count, line 47.
update_trade_count(tt) == tt + 1

-----------------------------------------------------------------------------
(* TradeLogger (utils.py): trades.csv is a sequence of rows, each a        *)
(* sequence of cell texts.  A value is a tagged tuple; its cell text is a  *)
(* string.                                                                 *)

None == <<"None">>
Str(t) == <<"str", t>>
NumV(n) == <<"num", n>>
Datetime(d) == <<"datetime", d>>

\* The numbers that occur in the journal: days, quantities, prices, pnl.
Numbers == 0..(MaxNow + 7) \cup {50000}

\* ensure_log_file_exists, line 143: the header row.
Header == <<"timestamp", "symbol", "side", "quantity", "price", "pnl", "strategy">>

\* log_trade, lines 149-157: the keys of trade_data, in the dict's order,
\* which is the order DataFrame([trade_data]) gives its columns.
TradeDataKeys ==
    <<"timestamp", "symbol", "side", "quantity", "price", "strategy", "pnl">>

\* to_csv: the text of one value.  None is written as the empty text, and
\* the text of the datetime of day d is modelled by the decimal text of d.
CellText(v) ==
    IF v = None THEN ""
    ELSE IF v[1] = "str" THEN v[2]
    ELSE ToString(v[2])

\* read_csv: the value of one cell text: empty is NaN, a numeral a number,
\* anything else a string.
CellValue(t) ==
    IF t = "" THEN NaN
    ELSE IF \E n \in Numbers : ToString(n) = t
         THEN NumV(CHOOSE n \in Numbers : ToString(n) = t)
    ELSE Str(t)

\* log_trade, lines 159-160: the row appended for trade_data, without a
\* header and in the frame's column order.
RowOf(trade_data) == [i \in 1..Len(TradeDataKeys) |-> CellText(trade_data[TradeDataKeys[i]])]

\* get_trade_history, lines 169-170: read_csv names the cells of every row
\* after the header row, position by position; to_datetime converts the
\* timestamp column.
ReadRow(header, row) ==
    [k \in {header[i] : i \in 1..Len(header)} |->
        LET i == CHOOSE x \in 1..Len(header) : header[x] = k
            v == CellValue(row[i])
        IN IF k = "timestamp" /\ v # NaN /\ v[1] = "num" THEN Datetime(v[2]) ELSE v]

RECURSIVE Keep(_, _)
\* get_trade_history, line 172: the rows whose timestamp is at or after the
\* cutoff, in file order.
Keep(rows, cutoff) ==
    IF rows = <<>> THEN <<>>
    ELSE LET r == Head(rows)
             rest == Keep(Tail(rows), cutoff)
         IN IF r.timestamp # NaN /\ r.timestamp[1] = "datetime" /\ r.timestamp[2] >= cutoff
            THEN <<r>> \o rest
            ELSE rest

\* get_trade_history(days) on the file, at time now.
get_trade_history(file, now, days) ==
    Keep([i \in 1..(Len(file) - 1) |-> ReadRow(file[1], file[i + 1])], now - days)

\* log_trade, lines 149-157: trade_data for a trade logged at time now.
\* The symbol, the quantity and the price are the same in every call.
TradeData(now, sd, st, pl) ==
    [timestamp |-> Datetime(now), symbol |-> Str("BTCUSDT"), side |-> Str(sd),
     quantity |-> NumV(1), price |-> NumV(50000), strategy |-> Str(st),
     pnl |-> pl]

\* log_trade, lines 159-160: the file after the row of trade_data was
\* appended.
log_trade(file, trade_data) == Append(file, RowOf(trade_data))

-----------------------------------------------------------------------------
(* BinanceTrader.execute_trade and run_strategy, main().                   *)

Signals == {"BUY", "SELL"}

\* Faulty variant of AfterCreateOrder: the count is updated in the except
\* clause as well.
CountedOnFailure(tt, ok) == update_trade_count(tt)
\* execute_trade, lines 177-185 and 191-194: update_trade_count runs only
\* when create_order returned.
AfterCreateOrder(tt, ok) == IF ok THEN update_trade_count(tt) ELSE tt

\* Faulty variant of AfterGate: the return of line 169 is missing.
GateFallsThrough(allowed) == "get_symbol_ticker"
\* execute_trade, lines 167-172: where the control goes after the gate.
AfterGate(allowed) == IF allowed THEN "get_symbol_ticker" ELSE "return"

\* Faulty variant of AfterFetch: the rules run whatever the fetch gave.
FetchIgnored(got) == "rule1"
\* run_strategy, lines 200-207: where the control goes after the fetch.
\* got is "None" (get_historical_klines caught an exception), "short" (a
\* frame with fewer than two rows: df.iloc[-2] raises IndexError) or "df".
AfterFetch(got) ==
    IF got = "None" THEN "return"
    ELSE IF got = "short" THEN "raise"
    ELSE "rule1"

\* Faulty variant of Observed: the except clause of line 250 re-raises.
StrategyReraises(raised) == IF raised THEN "raised" ELSE "returned"
\* run_strategy, lines 198 and 250-252: what main sees of a cycle.  An
\* exception raised inside run_strategy is caught and logged there, and
\* run_strategy returns.
Observed(raised) == "returned"

\* main, lines 267-282: the loop's reaction to a cycle that returned
\* (lines 269-271) or raised (lines 273-282), with retry_count = rc.
MainAfterCycle(observed, rc) ==
    IF observed = "returned" THEN [pc |-> "sleep", retry_count |-> 0]
    ELSE IF rc + 1 >= MaxRetries THEN [pc |-> "stopped", retry_count |-> rc + 1]
    ELSE [pc |-> "retry_sleep", retry_count |-> rc + 1]

\* The end of run_strategy and main's reaction to it.  raised says whether
\* an exception was raised inside run_strategy's try block.
Finish(raised) ==
    /\ pc' = MainAfterCycle(Observed(raised), retry_count).pc
    /\ retry_count' = MainAfterCycle(Observed(raised), retry_count).retry_count
    /\ consec_fail' = IF ~raised THEN 0
                      ELSE IF consec_fail < MaxRetries THEN consec_fail + 1
                      ELSE consec_fail
    /\ df' = NoDf

\* execute_trade is left, by a return or by an exception: its arguments
\* end with the call.
EndCall ==
    /\ side' = "NONE"
    /\ strategy' = "NONE"
    /\ caller' = "NONE"

\* execute_trade returns (line 169, 189 or 194) to the rule that called it.
ReturnToCaller ==
    /\ EndCall
    /\ IF caller = "rule1"
       THEN pc' = "rule2" /\ UNCHANGED <<retry_count, consec_fail, df>>
       ELSE Finish(FALSE)

\* The call self.execute_trade(symbol, side, quantity, strategy).
Call(s, strat, who) ==
    /\ pc' = "can_trade"
    /\ side' = s
    /\ strategy' = strat
    /\ caller' = who
    /\ tt_entry' = trades_today

\* run_strategy, lines 200-224, on each result of get_historical_klines.
FetchResult(got) ==
    /\ IF AfterFetch(got) = "return"
       THEN /\ trace' = <<<<"fetch", got>>>>
            /\ Finish(FALSE)
       ELSE IF AfterFetch(got) = "raise"
       THEN /\ trace' = <<<<"fetch", got>>, <<"raise", "IndexError">>>>
            /\ Finish(TRUE)
       ELSE /\ trace' = <<<<"fetch", got>>>>
            /\ \E v \in FrameViews : df' = v
            /\ pc' = "rule1"
            /\ UNCHANGED <<retry_count, consec_fail>>
    /\ UNCHANGED <<today, trades_today, last_trade_date, side, strategy, caller,
                   tt_entry, calls_today, recorded, interrupted,
                   resets_today, orders_today>>
    /\ UNCHANGED journalVars
    /\ UNCHANGED evalVars

\* Lines 200-203: get_historical_klines caught an exception (the request
\* failed, the answer was empty or malformed) and returned None.
FetchFails == pc = "run_strategy" /\ FetchResult("None")

\* Lines 206-207 and 250-252: the frame has fewer than two rows.
FetchShort == pc = "run_strategy" /\ FetchResult("short")

\* Lines 200-224: a frame of at least two rows was fetched.
FetchOk == pc = "run_strategy" /\ FetchResult("df")

\* The reasons log_signal is given at lines 232, 235, 241 and 245.
BreakoutReason(sig) ==
    IF sig = "BUY" THEN "Upward breakout from BB squeeze"
    ELSE "Downward breakout from BB squeeze"
MomentumReason(sig) ==
    IF sig = "BUY" THEN "RSI oversold with MACD confirmation"
    ELSE "RSI overbought with MACD confirmation"

\* Lines 226-236.
Rule1Step ==
    /\ pc = "rule1"
    /\ IF df.sig1 \in Signals
       THEN /\ trace' = trace \o <<<<"log_signal", df.sig1, BreakoutReason(df.sig1)>>,
                                   <<"execute_trade", df.sig1, "BB_SQUEEZE">>>>
            /\ Call(df.sig1, "BB_SQUEEZE", "rule1")
       ELSE /\ pc' = "rule2"
            /\ UNCHANGED <<trace, side, strategy, caller, tt_entry>>
    /\ UNCHANGED <<today, trades_today, last_trade_date, retry_count, df,
                   calls_today, recorded, consec_fail, interrupted,
                   resets_today, orders_today>>
    /\ UNCHANGED journalVars
    /\ UNCHANGED evalVars

\* Lines 238-248.
Rule2Step ==
    /\ pc = "rule2"
    /\ IF df.sig2 \in Signals
       THEN /\ trace' = trace \o <<<<"log_signal", df.sig2, MomentumReason(df.sig2)>>,
                                   <<"execute_trade", df.sig2, "RSI_MACD">>>>
            /\ Call(df.sig2, "RSI_MACD", "rule2")
            /\ UNCHANGED <<retry_count, df, consec_fail>>
       ELSE /\ trace' = trace \o <<<<"log_signal", "HOLD", "No clear signals">>>>
            /\ Finish(FALSE)
            /\ UNCHANGED <<side, strategy, caller, tt_entry>>
    /\ UNCHANGED <<today, trades_today, last_trade_date, calls_today, recorded, interrupted,
                   resets_today, orders_today>>
    /\ UNCHANGED journalVars
    /\ UNCHANGED evalVars

\* What the cycle's trace notes of can_trade's lines 35-37.
ResetEvent(ltd, day) == IF ResetDue(ltd, day) THEN <<<<"reset">>>> ELSE <<>>

\* execute_trade, lines 167-169, with RiskManager.can_trade.
CanTrade ==
    /\ pc = "can_trade"
    /\ LET after == AfterReset(trades_today, last_trade_date, today)
           allowed == can_trade(trades_today, last_trade_date, today)
       IN /\ trades_today' = after.trades_today
          /\ last_trade_date' = after.last_trade_date
          /\ recorded' = IF ResetDue(last_trade_date, today) THEN 0 ELSE recorded
          /\ calls_today' = IF calls_today <= MaxTrades THEN calls_today + 1
                            ELSE calls_today
          /\ resets_today' = IF ResetDue(last_trade_date, today) /\ resets_today <= 1
                             THEN resets_today + 1
                             ELSE resets_today
          /\ IF AfterGate(allowed) = "return"
             THEN /\ trace' = trace \o ResetEvent(last_trade_date, today) \o
                        <<<<"can_trade", "False">>,
                          <<"log_signal", "HOLD", "Daily trade limit reached">>>>
                  /\ ReturnToCaller
             ELSE /\ trace' = trace \o ResetEvent(last_trade_date, today) \o
                        <<<<"can_trade", IF allowed THEN "True" ELSE "False">>>>
                  /\ pc' = "get_symbol_ticker"
                  /\ UNCHANGED <<retry_count, consec_fail, df, side, strategy, caller>>
    /\ UNCHANGED <<today, tt_entry, interrupted, orders_today>>
    /\ UNCHANGED journalVars
    /\ UNCHANGED evalVars

\* execute_trade, lines 172-175: the ticker arrives.
TickerOk ==
    /\ pc = "get_symbol_ticker"
    /\ trace' = trace \o <<<<"get_symbol_ticker", "ok">>,
                           <<"log_trade_execution", "PENDING">>>>
    /\ pc' = "create_order"
    /\ UNCHANGED <<today, trades_today, last_trade_date, retry_count, df, side,
                   strategy, caller, tt_entry, calls_today, recorded, consec_fail, interrupted,
                   resets_today, orders_today>>
    /\ UNCHANGED journalVars
    /\ UNCHANGED evalVars

\* execute_trade, lines 172 and 191-192: get_symbol_ticker raises; the
\* handler reads current_price, which was never bound, so it raises
\* UnboundLocalError into run_strategy, whose except clause (line 250) ends
\* the cycle.
TickerFails ==
    /\ pc = "get_symbol_ticker"
    /\ trace' = trace \o <<<<"get_symbol_ticker", "error">>,
                           <<"raise", "UnboundLocalError">>>>
    /\ EndCall
    /\ Finish(TRUE)
    /\ UNCHANGED <<today, trades_today, last_trade_date, tt_entry, calls_today,
                   recorded, interrupted, resets_today, orders_today>>
    /\ UNCHANGED journalVars
    /\ UNCHANGED evalVars

\* execute_trade, lines 177-189: the order is accepted, counted and
\* written to the journal (line 186: pnl is left at its default, None).
OrderOk ==
    /\ pc = "create_order"
    /\ Len(written) < MaxOrders
    /\ trades_today' = AfterCreateOrder(trades_today, TRUE)
    /\ recorded' = recorded + 1
    /\ orders_today' = IF orders_today <= MaxTrades THEN orders_today + 1
                       ELSE orders_today
    /\ trace' = trace \o <<<<"create_order", "ok">>, <<"update_trade_count">>,
                           <<"log_trade", side, strategy>>,
                           <<"log_trade_execution", "SUCCESS">>>>
    /\ ReturnToCaller
    /\ UNCHANGED <<today, last_trade_date, tt_entry, calls_today, interrupted,
                   resets_today>>
    /\ log_file' = log_trade(log_file, TradeData(today, side, strategy, None))
    /\ written' = Append(written, TradeData(today, side, strategy, None))
    /\ UNCHANGED <<history, jnow>>
    /\ UNCHANGED evalVars

\* execute_trade, lines 177 and 191-194: create_order raises.
OrderFails ==
    /\ pc = "create_order"
    /\ trades_today' = AfterCreateOrder(trades_today, FALSE)
    /\ recorded' = recorded
    /\ trace' = trace \o <<<<"create_order", "error">>,
                           <<"log_trade_execution", "FAILED">>>>
    /\ ReturnToCaller
    /\ UNCHANGED <<today, last_trade_date, tt_entry, calls_today, interrupted,
                   resets_today, orders_today>>
    /\ UNCHANGED journalVars
    /\ UNCHANGED evalVars

\* main, lines 271 and 282: time.sleep returns and the loop goes round.
\* The history of the cycle starts afresh.
Sleep ==
    /\ pc \in {"sleep", "retry_sleep"}
    /\ pc' = "run_strategy"
    /\ trace' = <<>>
    /\ tt_entry' = 0
    /\ UNCHANGED <<today, trades_today, last_trade_date, retry_count, df, side,
                   strategy, caller, calls_today, recorded, consec_fail, interrupted,
                   resets_today, orders_today>>
    /\ UNCHANGED journalVars
    /\ UNCHANGED evalVars

\* The calendar date advances (datetime.now().date() in can_trade).
Midnight ==
    /\ pc # "stopped"
    /\ today < MaxDay
    /\ today' = today + 1
    /\ calls_today' = 0
    /\ resets_today' = 0
    /\ orders_today' = 0
    /\ UNCHANGED <<pc, trades_today, last_trade_date, retry_count, df, side,
                   strategy, caller, trace, tt_entry, recorded, consec_fail, interrupted>>
    /\ UNCHANGED journalVars
    /\ UNCHANGED evalVars

\* main, lines 284-289: the operator interrupts the bot.  KeyboardInterrupt
\* is no Exception: it passes the except clauses of execute_trade and
\* run_strategy and unwinds both, so the cycle under way is abandoned with
\* its frame and its arguments.
Interrupt ==
    /\ pc # "stopped"
    /\ pc' = "stopped"
    /\ interrupted' = TRUE
    /\ EndCall
    /\ df' = NoDf
    /\ trace' = <<>>
    /\ tt_entry' = 0
    /\ UNCHANGED <<today, trades_today, last_trade_date, retry_count, calls_today,
                   recorded, consec_fail, resets_today, orders_today>>
    /\ UNCHANGED journalVars
    /\ UNCHANGED evalVars

\* One step of the bot's own control flow.
Step ==
    \/ FetchFails
    \/ FetchShort
    \/ FetchOk
    \/ Rule1Step
    \/ Rule2Step
    \/ CanTrade
    \/ TickerOk
    \/ TickerFails
    \/ OrderOk
    \/ OrderFails
    \/ Sleep

-----------------------------------------------------------------------------
(* TradeLogger (utils.py): the calls made on the journal.                 *)

Sides == {"BUY", "SELL"}
Strategies == {"BB_SQUEEZE", "RSI_MACD"}
Pnls == {None, NumV(5)}
Windows == {1, 7}

\* log_trade(symbol, side, quantity, price, strategy, pnl), lines 146-164.
LogTrade ==
    /\ Len(written) < MaxRows
    /\ \E sd \in Sides, st \in Strategies, pl \in Pnls :
          LET trade_data == TradeData(jnow, sd, st, pl)
          IN /\ log_file' = log_trade(log_file, trade_data)
             /\ written' = Append(written, trade_data)
    /\ UNCHANGED <<history, jnow>>
    /\ UNCHANGED loopVars
    /\ UNCHANGED evalVars

\* get_trade_history(days), lines 166-175.
GetTradeHistory ==
    /\ \E days \in Windows :
          history' = [called |-> TRUE, cutoff |-> jnow - days,
                      n |-> Len(written),
                      rows |-> get_trade_history(log_file, jnow, days)]
    /\ UNCHANGED <<log_file, written, jnow>>
    /\ UNCHANGED loopVars
    /\ UNCHANGED evalVars

\* Time passes between two uses of the journal.
JournalDay ==
    /\ jnow < MaxNow
    /\ jnow' = jnow + 1
    /\ UNCHANGED <<log_file, written, history>>
    /\ UNCHANGED loopVars
    /\ UNCHANGED evalVars

NextJournal == LogTrade \/ GetTradeHistory \/ JournalDay

-----------------------------------------------------------------------------
(* The first cycle of a bot on every frame of the case sets, with the rows *)
(* of the frame kept beside what the cycle does with them.                 *)

\* Lines 200-224, as FetchOk, keeping the rows that were fetched.
FetchRows ==
    /\ pc = "run_strategy"
    /\ snapshot = NoSnapshot
    /\ \E f \in Frames :
          /\ snapshot' = f
          /\ df' = View(f)
    /\ trace' = <<<<"fetch", "df">>>>
    /\ pc' = AfterFetch("df")
    /\ UNCHANGED <<today, trades_today, last_trade_date, retry_count, side, strategy,
                   caller, tt_entry, calls_today, recorded, consec_fail, interrupted,
                   resets_today, orders_today>>
    /\ UNCHANGED journalVars

\* One cycle: the fetch, the two rules and the order path behind each.
NextEval ==
    \/ FetchRows
    \/ Rule1Step
    \/ Rule2Step
    \/ CanTrade
    \/ TickerOk
    \/ TickerFails
    \/ OrderOk
    \/ OrderFails

-----------------------------------------------------------------------------
(* The specifications.                                                     *)

Init ==
    /\ pc = "run_strategy"
    /\ today = 0
    /\ trades_today = 0
    /\ last_trade_date = NoDate
    /\ retry_count = 0
    /\ df = NoDf
    /\ side = "NONE"
    /\ strategy = "NONE"
    /\ caller = "NONE"
    /\ trace = <<>>
    /\ tt_entry = 0
    /\ calls_today = 0
    /\ recorded = 0
    /\ consec_fail = 0
    /\ interrupted = FALSE
    /\ resets_today = 0
    /\ orders_today = 0
    /\ log_file = <<Header>>
    /\ written = <<>>
    /\ history = [called |-> FALSE, cutoff |-> 0, n |-> 0, rows |-> <<>>]
    /\ jnow = 0
    /\ snapshot = NoSnapshot

Next == Step \/ Midnight \/ Interrupt

Spec == Init /\ [][Next]_vars

\* The loop under the scheduling the code relies on: every blocking call
\* returns or raises and every sleep ends, so the control flow goes on
\* whenever it can.
SpecLive == Spec /\ WF_vars(Step)

\* The journal on its own: a fresh trades.csv, then any calls of log_trade
\* and get_trade_history.
SpecJournal == Init /\ [][NextJournal]_vars

\* The first cycle of a bot, on every frame of the case sets.
SpecEval == Init /\ [][NextEval]_vars

-----------------------------------------------------------------------------
(* Reading the trace of the current cycle.                                 *)

Has(e) == \E i \in 1..Len(trace) : trace[i] = e
HasKind(k) == \E i \in 1..Len(trace) : trace[i][1] = k
CountKind(k) == Cardinality({i \in 1..Len(trace) : trace[i][1] = k})
Last == trace[Len(trace)]

DeclineLog == <<"log_signal", "HOLD", "Daily trade limit reached">>

\* The index of the last execute_trade call of the cycle, 0 when none.
LastCall ==
    IF HasKind("execute_trade")
    THEN CHOOSE i \in 1..Len(trace) :
            /\ trace[i][1] = "execute_trade"
            /\ \A j \in (i + 1)..Len(trace) : trace[j][1] # "execute_trade"
    ELSE 0

\* What the last execute_trade call did so far.
InAttempt(e) == LastCall > 0 /\ \E i \in LastCall..Len(trace) : trace[i] = e

\* How the last execute_trade call ended: "declined" by the gate, "failed"
\* at the price fetch or at the order, "ok", or "running" / "none".
Outcome ==
    IF LastCall = 0 THEN "none"
    ELSE IF InAttempt(<<"can_trade", "False">>) THEN "declined"
    ELSE IF InAttempt(<<"get_symbol_ticker", "error">>)
            \/ InAttempt(<<"create_order", "error">>) THEN "failed"
    ELSE IF InAttempt(<<"create_order", "ok">>) THEN "ok"
    ELSE "running"

\* can_trade() has just run: nothing happened since but the log line of a
\* declined attempt.
JustGated ==
    /\ trace # <<>>
    /\ \/ Last[1] = "can_trade"
       \/ Last = DeclineLog

-----------------------------------------------------------------------------
(* The claims.                                                             *)

\* C1: right after can_trade() has run inside execute_trade, trades_today
\* is at most max_trades_per_day, after any sequence of cycles, order
\* successes, order failures and day changes.
C1_TradesWithinLimit == JustGated => trades_today <= MaxTrades

\* C1 witness: the gate has just declined an attempt at the limit, on a
\* day after the first.
C1_Witness ==
    /\ JustGated
    /\ Last = DeclineLog
    /\ trades_today = MaxTrades
    /\ today > 0
    /\ last_trade_date = Date(today)
    /\ calls_today > 0

\* C2 as stated: a failed or declined attempt leaves trades_today as it was
\* when the attempt began, and a successful one leaves it one higher.
C2_CountUnchangedByFailure ==
    /\ Outcome \in {"declined", "failed"} => trades_today = tt_entry
    /\ Outcome = "ok" => trades_today = tt_entry + 1

\* The value the attempt's own can_trade() left in trades_today.
GatedCount == IF InAttempt(<<"reset">>) THEN 0 ELSE tt_entry

\* C2 amended: apart from the daily reset that the attempt's can_trade()
\* performs, a failed or declined attempt leaves trades_today unchanged and
\* a successful one raises it by exactly 1, with one update_trade_count per
\* accepted order of the cycle.
C2_CountFollowsOrders ==
    /\ Outcome \in {"declined", "failed"} => trades_today = GatedCount
    /\ Outcome = "ok" => trades_today = GatedCount + 1
    /\ CountKind("update_trade_count")
         = Cardinality({i \in 1..Len(trace) : trace[i] = <<"create_order", "ok">>})

\* C2 witness: an order failed in an attempt whose can_trade() had reset a
\* non-zero counter.
C2_Witness ==
    /\ Outcome = "failed"
    /\ InAttempt(<<"create_order", "error">>)
    /\ InAttempt(<<"reset">>)
    /\ tt_entry > 0
    /\ trades_today = 0

\* C3: in a cycle where the squeeze breakout gives BUY or SELL, the
\* momentum rule gives no second signal and no second order is attempted:
\* the only execute_trade of the cycle is the one tagged BB_SQUEEZE.
C3_FirstMatchWins ==
    HasKind("execute_trade") /\ trace[LastCall][3] = "RSI_MACD"
        => ~(Has(<<"execute_trade", "BUY", "BB_SQUEEZE">>)
             \/ Has(<<"execute_trade", "SELL", "BB_SQUEEZE">>))

\* C4: when a field the rules read is undefined in the previous or the
\* current row, the cycle signals neither BUY nor SELL and attempts no
\* order.
C4_UndefinedForcesHold ==
    (snapshot # NoSnapshot /\ AnyUndefined(snapshot)) =>
        /\ ~HasKind("execute_trade")
        /\ \A i \in 1..Len(trace) :
              trace[i][1] = "log_signal" => trace[i][2] = "HOLD"

\* C5: once max_consecutive_failures cycles in a row have raised an
\* unexpected failure, the loop has terminated.
C5_StopsAfterMaxFailures == consec_fail >= MaxRetries => pc = "stopped"

\* A step of can_trade(): it is the only step at the gate that extends the
\* trace.
GateStep == pc = "can_trade" /\ Len(trace') > Len(trace)

\* C6 as stated: the (max_trades_per_day + 1)-th can_trade() of a calendar
\* day returns false, and the first can_trade() after the date advanced
\* returns true.
C6_CallCountLimit ==
    [][GateStep =>
        /\ calls_today = MaxTrades => pc' # "get_symbol_ticker"
        /\ ResetDue(last_trade_date, today) => pc' = "get_symbol_ticker"]_vars

\* C6 amended: can_trade() returns false exactly when max_trades_per_day
\* trades have been recorded by update_trade_count since the last daily
\* reset and the stored date is today's; calls that recorded no trade do
\* not count; the first can_trade() after the date advanced returns true.
C6_RecordedLimit ==
    [][GateStep =>
        /\ (~ResetDue(last_trade_date, today) /\ recorded >= MaxTrades)
              => pc' # "get_symbol_ticker"
        /\ (~ResetDue(last_trade_date, today) /\ recorded < MaxTrades)
              => pc' = "get_symbol_ticker"
        /\ ResetDue(last_trade_date, today) => pc' = "get_symbol_ticker"]_vars

\* C6 witness: can_trade() was called more than max_trades_per_day times
\* today and the last call returned true, because an earlier order failed.
C6_Witness ==
    /\ calls_today > MaxTrades
    /\ trace # <<>>
    /\ Last = <<"can_trade", "True">>
    /\ recorded < MaxTrades
    /\ last_trade_date = Date(today)

\* A value that stands for "no value": None when written, NaN when read.
Missing(v) == v = None \/ v = NaN
SameValue(a, b) == a = b \/ (Missing(a) /\ Missing(b))

\* get_trade_history was called after every write, over a window that
\* covers every written timestamp.
HistoryCoversAll ==
    /\ history.called
    /\ history.n = Len(written)
    /\ \A i \in 1..Len(written) : written[i].timestamp[2] >= history.cutoff

\* C7: after N log_trade calls on a fresh journal, get_trade_history over
\* a window covering all N timestamps returns N records, each with every
\* field equal to the value written under that field name (a missing pnl
\* reads back as missing).
C7_JournalRoundTrip ==
    HistoryCoversAll =>
        /\ Len(history.rows) = Len(written)
        /\ \A i \in 1..Len(history.rows) :
              \A k \in {"timestamp", "symbol", "side", "quantity", "price",
                        "strategy", "pnl"} :
                  SameValue(history.rows[i][k], written[i][k])

\* What the code does instead: the count and the first five fields
\* round-trip, and strategy and pnl come back under each other's name.
JournalSwapsStrategyAndPnl ==
    HistoryCoversAll =>
        /\ Len(history.rows) = Len(written)
        /\ \A i \in 1..Len(history.rows) :
              /\ \A k \in {"timestamp", "symbol", "side", "quantity", "price"} :
                    history.rows[i][k] = written[i][k]
              /\ SameValue(history.rows[i].strategy, written[i].pnl)
              /\ history.rows[i].pnl = written[i].strategy

\* C8: an attempt the gate declines logs HOLD "Daily trade limit reached"
\* and does nothing else: no price fetch, no order, no update_trade_count
\* and no journal write before the next execute_trade call, and
\* trades_today is what it was.
C8_DeclinedAttemptDoesNothing ==
    \A i \in 1..Len(trace) :
        trace[i] = <<"can_trade", "False">> =>
            /\ i < Len(trace)
            /\ trace[i + 1] = DeclineLog
            /\ i + 2 <= Len(trace) =>
                  trace[i + 2][1] \in {"log_signal", "execute_trade"}
            /\ (i = Len(trace) - 1) => trades_today = tt_entry

\* C8 witness: the breakout rule's attempt was declined and the cycle went
\* on to the momentum rule.
C8_Witness ==
    /\ pc = "rule2"
    /\ Outcome = "declined"
    /\ Last = DeclineLog

\* A cycle whose fetch failed.
FetchFailed == trace # <<>> /\ trace[1] \in {<<"fetch", "None">>, <<"fetch", "short">>}

\* C9: a cycle whose fetch failed ends at once: no signal, no can_trade, no
\* order, and the step leaves RiskManager's state unchanged.
C9_FetchFailureEndsCycle ==
    /\ [](FetchFailed =>
            /\ pc \in {"sleep", "stopped"}
            /\ \A i \in 2..Len(trace) : trace[i][1] = "raise")
    /\ [][(pc = "run_strategy" /\ trace' # trace /\ trace'[1] # <<"fetch", "df">>)
            => UNCHANGED <<trades_today, last_trade_date, recorded, calls_today>>]_vars

\* C9 witness: a fetch failed on a day when trades had been recorded, and
\* the cycle is over.
C9_Witness ==
    /\ FetchFailed
    /\ trace[1] = <<"fetch", "None">>
    /\ pc = "sleep"
    /\ trades_today > 0

\* The outcomes the loop recovers from: the fetch failed, or an order was
\* refused.
RecoverableFailure == Has(<<"fetch", "None">>) \/ Has(<<"create_order", "error">>)

\* run_strategy has ended and main has reacted to it.
CycleOver == pc \in {"sleep", "retry_sleep"} \/ (pc = "stopped" /\ ~interrupted)

\* C10: after a cycle that failed at the fetch or at the order, another
\* cycle follows (unless the operator interrupts); a cycle with a refused
\* order is followed by the normal sleep with retry_count 0; and the loop
\* stops only by an interrupt or with retry_count at MAX_RETRIES.
C10_LoopContinues ==
    /\ (RecoverableFailure /\ pc = "sleep") ~> (pc = "run_strategy" \/ interrupted)
    /\ []((Has(<<"create_order", "error">>) /\ CycleOver) =>
             /\ pc = "sleep"
             /\ retry_count = 0)
    /\ [](pc = "stopped" => interrupted \/ retry_count >= MaxRetries)

\* C10 witness: a cycle in which an order was refused is over and the bot
\* sleeps the analysis interval.
C10_Witness ==
    /\ pc = "sleep"
    /\ Outcome = "failed"
    /\ InAttempt(<<"create_order", "error">>)
    /\ ~interrupted

\* C11: can_trade() sets trades_today to 0 and the stored date to today
\* exactly when the stored date differs from today; on a calendar day the
\* counter is reset by the first can_trade() and by no later one; and no
\* step outside can_trade() changes the stored date or clears the counter:
\* the steps of a cycle that calls no execute_trade (a HOLD cycle, a failed
\* fetch) leave trades_today and the stored date as they were.
C11_LazyDailyReset ==
    /\ [][GateStep =>
            /\ last_trade_date # Date(today) =>
                  /\ last_trade_date' = Date(today)
                  /\ trades_today' = 0
                  /\ resets_today' = 1
            /\ last_trade_date = Date(today) =>
                  /\ last_trade_date' = last_trade_date
                  /\ trades_today' = trades_today
                  /\ resets_today' = resets_today]_vars
    /\ [](resets_today <= 1)
    /\ [][~GateStep =>
            /\ last_trade_date' = last_trade_date
            /\ trades_today' >= trades_today
            /\ pc # "create_order" => trades_today' = trades_today]_vars

\* C11 witness: on a day after the first, a second can_trade() has just run
\* on a non-zero counter and has reset nothing.
C11_Witness ==
    /\ today > 0
    /\ calls_today >= 2
    /\ resets_today = 1
    /\ JustGated
    /\ ~InAttempt(<<"reset">>)
    /\ trades_today > 0
    /\ last_trade_date = Date(today)

\* The rows meet every condition of the breakout BUY but the one on adx,
\* and every condition of the momentum BUY but the one on rsi.
OthersSatisfied ==
    /\ Squeeze(snapshot.previous)
    /\ ~Squeeze(snapshot.current)
    /\ Gt(snapshot.current.close, snapshot.current.upper_bb)
    /\ Gt(snapshot.current.macd, snapshot.current.signal)
    /\ Lt(snapshot.current.volatility, snapshot.mean_volatility)

\* The cycle signalled sig from the breakout rule / from the momentum rule.
BreakoutSignal(sig) ==
    Has(<<"log_signal", sig, BreakoutReason(sig)>>)
        \/ Has(<<"execute_trade", sig, "BB_SQUEEZE">>)
MomentumSignal(sig) ==
    Has(<<"log_signal", sig, MomentumReason(sig)>>)
        \/ Has(<<"execute_trade", sig, "RSI_MACD">>)

\* C12: every comparison of the rules is strict.  In a cycle on rows with a
\* value equal to its bound, the rule of that bound gives no BUY/SELL:
\* rsi = 30 no momentum BUY, rsi = 70 no momentum SELL, adx = adx_threshold
\* no breakout, close = bb_upper no breakout BUY, close = bb_lower no
\* breakout SELL, macd = macd_signal and volatility = mean volatility no
\* momentum signal.
C12_StrictComparisons ==
    /\ snapshot.current.rsi = Num(30) => ~MomentumSignal("BUY")
    /\ snapshot.current.rsi = Num(70) => ~MomentumSignal("SELL")
    /\ (~IsNaN(snapshot.current.macd)
          /\ snapshot.current.macd = snapshot.current.signal)
          => ~(MomentumSignal("BUY") \/ MomentumSignal("SELL"))
    /\ (~IsNaN(snapshot.current.volatility)
          /\ snapshot.current.volatility = snapshot.mean_volatility)
          => ~(MomentumSignal("BUY") \/ MomentumSignal("SELL"))
    /\ snapshot.current.adx = Num(AdxThreshold)
          => ~(BreakoutSignal("BUY") \/ BreakoutSignal("SELL"))
    /\ (~IsNaN(snapshot.current.close)
          /\ snapshot.current.close = snapshot.current.upper_bb)
          => ~BreakoutSignal("BUY")
    /\ (~IsNaN(snapshot.current.close)
          /\ snapshot.current.close = snapshot.current.lower_bb)
          => ~BreakoutSignal("SELL")

\* C12 witness: a cycle has ended on rows with adx = adx_threshold and
\* rsi = 30 and every other condition of the breakout BUY and of the
\* momentum BUY satisfied; it signalled HOLD and called no execute_trade.
C12_Witness ==
    /\ OthersSatisfied
    /\ snapshot.current.adx = Num(AdxThreshold)
    /\ snapshot.current.rsi = Num(30)
    /\ pc = "sleep"
    /\ trace = <<<<"fetch", "df">>, <<"log_signal", "HOLD", "No clear signals">>>>

\* C13: the number of orders accepted within one calendar day never exceeds
\* max_trades_per_day.
C13_OrdersPerDayWithinLimit == orders_today <= MaxTrades

\* What the code keeps instead: at most max_trades_per_day orders are
\* accepted between two daily resets, whatever calendar day each of them
\* is accepted on.
OrdersPerResetWithinLimit ==
    /\ recorded = trades_today
    /\ recorded <= MaxTrades

\* The failure e of a collaborator call was handled inside execute_trade:
\* the attempt was reported FAILED right after it, that call of
\* execute_trade raised nothing, and after the breakout rule's attempt
\* run_strategy went on to the momentum rule.
HandledInside(e) ==
    \A i \in 1..Len(trace) :
        trace[i] = e =>
            /\ i < Len(trace)
            /\ trace[i + 1] = <<"log_trade_execution", "FAILED">>
            /\ \A j \in (i + 1)..Len(trace) :
                  trace[j][1] = "raise" =>
                      \E k \in (i + 1)..j : trace[k][1] = "execute_trade"
            /\ (i + 1 = Len(trace) /\ trace[LastCall][3] = "BB_SQUEEZE")
                  => (pc = "rule2" \/ interrupted)

\* C14: whether the current-price fetch or the order submission fails,
\* execute_trade reports the attempt as FAILED and returns without raising
\* to run_strategy, whose remaining steps still run in the same cycle.
C14_SubmitFailuresHandled ==
    /\ HandledInside(<<"get_symbol_ticker", "error">>)
    /\ HandledInside(<<"create_order", "error">>)

\* What the code does: a refused order is handled inside execute_trade; a
\* failed price fetch is followed by an exception raised out of
\* execute_trade, and the cycle ends there.
OrderFailureHandledTickerFailureRaises ==
    /\ HandledInside(<<"create_order", "error">>)
    /\ \A i \in 1..Len(trace) :
          trace[i] = <<"get_symbol_ticker", "error">> =>
              /\ i + 1 = Len(trace)
              /\ trace[i + 1] = <<"raise", "UnboundLocalError">>
              /\ pc \in {"sleep", "stopped"}

====
